---------------------------- MODULE Spec2Model ----------------------------
(***************************************************************************)
(* A model of the two notebooks of nagi49000/stats-play:                   *)
(*   src/unnamed/part_000                                 (chi-squared)    *)
(*   src/python/notebooks/statistical-tests/t-tests.ipynb (Z and T tests)  *)
(*                                                                         *)
(* A notebook is a set of code cells sharing one kernel namespace.  The    *)
(* state of the model is that namespace: one variable per global name a    *)
(* cell assigns, the set `names` of the names bound so far, the id of the  *)
(* cell run last (`ran`) and the exception it ended with (`err`, "none"    *)
(* when it ran to its end).  Every code cell that assigns a name is one    *)
(* action; a cell that raises keeps the assignments made by the lines      *)
(* before the raising line, as the kernel does.  Cells can be run in any   *)
(* order, any number of times.                                             *)
(*                                                                         *)
(* The data a notebook is written with (the literals and the seeded        *)
(* random draws of its data cells) are the in_* variables: chosen in Init  *)
(* from small sets, never changed, and read only by the data cells.        *)
(*                                                                         *)
(* Numbers.  Python floats and numpy float64 values are modelled as exact  *)
(* rationals in lowest terms (so rounding is not modelled), extended with  *)
(* the IEEE specials inf, -inf and nan that numpy arithmetic produces on a *)
(* division by zero; Python's own / raises ZeroDivisionError instead.      *)
(* A value math.sqrt or np.std produced is kept as a sign and its square.  *)
(* The distribution functions of scipy.stats are an oracle: a p-value is   *)
(* the record of the arguments the oracle was called with.                 *)
(***************************************************************************)
EXTENDS Integers, Sequences, FiniteSets

\* ------------------------------------------------------------------ bounds
\* most categories of a goodness-of-fit table
MaxCat == 2
\* largest observed count in a table cell
MaxCount == 1
\* largest expected count supplied for a category
MaxExpected == 2
\* largest factor an expected distribution is rescaled by
MaxScale == 3
\* largest size of a sample of the two-sample tests
MaxN2 == 2
\* most rows of a contingency table
MaxRows == 2
\* largest size of the one-sample test's sample and of the paired results
MaxN == 2
\* sample values are the multiples 0..MaxVal of a step
MaxVal == 1

\* --------------------------------------------------------------- numbers

Abs(x) == IF x < 0 THEN -x ELSE x

Sign(x) == IF x < 0 THEN -1 ELSE IF x > 0 THEN 1 ELSE 0

RECURSIVE GCD(_, _)
GCD(a, b) == IF b = 0 THEN a ELSE GCD(b, a % b)

\* the rational n/d (d # 0) in lowest terms with a positive denominator
Fin(n, d) ==
    LET g == GCD(Abs(n), Abs(d))
    IN  [k |-> "fin", n |-> Sign(d) * Sign(n) * (Abs(n) \div g), d |-> Abs(d) \div g]

Int2Num(i) == Fin(i, 1)

Ints2Nums(q) == [i \in 1..Len(q) |-> Int2Num(q[i])]

PInf == [k |-> "inf", n |-> 1, d |-> 0]

NInf == [k |-> "inf", n |-> -1, d |-> 0]

NaN == [k |-> "nan", n |-> 0, d |-> 0]

IsFin(x) == x.k = "fin"

IsZero(x) == x.k = "fin" /\ x.n = 0

\* -1, 0 or 1 for a value that is not nan
SignOf(x) == Sign(x.n)

\* IEEE addition
Add(x, y) ==
    IF x.k = "nan" \/ y.k = "nan" THEN NaN
    ELSE IF x.k = "inf" /\ y.k = "inf" THEN (IF x.n = y.n THEN x ELSE NaN)
    ELSE IF x.k = "inf" THEN x
    ELSE IF y.k = "inf" THEN y
    ELSE LET g == GCD(x.d, y.d)
         IN  Fin(x.n * (y.d \div g) + y.n * (x.d \div g), (x.d \div g) * y.d)

Neg(x) == IF x.k = "nan" THEN NaN ELSE [x EXCEPT !.n = -x.n]

Sub(x, y) == Add(x, Neg(y))

\* IEEE multiplication
Mul(x, y) ==
    IF x.k = "nan" \/ y.k = "nan" THEN NaN
    ELSE IF x.k = "inf" \/ y.k = "inf"
         THEN (IF SignOf(x) * SignOf(y) = 0 THEN NaN
               ELSE IF SignOf(x) * SignOf(y) > 0 THEN PInf ELSE NInf)
    ELSE LET g == GCD(Abs(x.n), y.d)
             h == GCD(Abs(y.n), x.d)
         IN  Fin(Sign(x.n) * (Abs(x.n) \div g) * Sign(y.n) * (Abs(y.n) \div h),
                 (x.d \div h) * (y.d \div g))

\* numpy's true division: a zero divisor gives inf, -inf or nan (and a warning)
NpDiv(x, y) ==
    IF x.k = "nan" \/ y.k = "nan" THEN NaN
    ELSE IF x.k = "inf" /\ y.k = "inf" THEN NaN
    ELSE IF x.k = "inf" THEN (IF y.n < 0 THEN Neg(x) ELSE x)
    ELSE IF y.k = "inf" THEN Fin(0, 1)
    ELSE IF y.n = 0 THEN (IF x.n = 0 THEN NaN ELSE IF x.n > 0 THEN PInf ELSE NInf)
    ELSE Mul(x, Fin(y.d, y.n))

\* Python's true division of finite values; the caller raises on a zero divisor
PyDiv(x, y) == Mul(x, Fin(y.d, y.n))

Sq(x) == Mul(x, x)

\* x < y for finite values
Less(x, y) == x.n * y.d < y.n * x.d

RECURSIVE SumSeq(_)
\* sum(), np.sum() of an ndarray: left to right, nan and inf propagate
SumSeq(s) == IF s = <<>> THEN Fin(0, 1) ELSE Add(SumSeq(SubSeq(s, 1, Len(s) - 1)), s[Len(s)])

RECURSIVE SumSkipNa(_)
\* pandas' sum (skipna=True), which np.sum of a Series or pandas array calls
SumSkipNa(s) ==
    IF s = <<>> THEN Fin(0, 1)
    ELSE LET r == SumSkipNa(SubSeq(s, 1, Len(s) - 1))
         IN  IF s[Len(s)].k = "nan" THEN r ELSE Add(r, s[Len(s)])

\* a value math.sqrt or np.std returned, or a quotient by one: sg * sqrt(q)
Root(sg, q) == [k |-> "fin", sg |-> sg, q |-> q]

RootInf(sg) == [k |-> "inf", sg |-> sg, q |-> Fin(0, 1)]

RootNaN == [k |-> "nan", sg |-> 0, q |-> Fin(0, 1)]

\* math.sqrt(x) of a finite x >= 0; np.sqrt of any value
Sqrt(x) ==
    IF x.k = "nan" THEN RootNaN
    ELSE IF x.k = "inf" THEN (IF x.n > 0 THEN RootInf(1) ELSE RootNaN)
    ELSE Root(Sign(x.n), x)

RootIsZero(r) == r.k = "fin" /\ r.sg = 0

\* abs()
RootAbs(r) == [r EXCEPT !.sg = Abs(r.sg)]

\* r / math.sqrt(m) for an integer m >= 0, numpy division
RootOverSqrt(r, m) ==
    IF r.k = "nan" THEN RootNaN
    ELSE IF r.k = "inf" THEN r
    ELSE IF m = 0 THEN (IF r.sg = 0 THEN RootNaN ELSE RootInf(r.sg))
    ELSE Root(r.sg, PyDiv(r.q, Int2Num(m)))

\* r * math.sqrt(x) for finite r and a finite x >= 0
RootTimesSqrt(r, x) == Root(r.sg * Sign(x.n), Mul(r.q, x))

\* x / r, numpy division: a zero divisor gives inf, -inf or nan
NumOverRoot(x, r) ==
    IF x.k = "nan" \/ r.k = "nan" THEN RootNaN
    ELSE IF x.k = "inf" /\ r.k = "inf" THEN RootNaN
    ELSE IF x.k = "inf" THEN RootInf(IF r.sg < 0 THEN -SignOf(x) ELSE SignOf(x))
    ELSE IF r.k = "inf" THEN Root(0, Fin(0, 1))
    ELSE IF r.sg = 0 THEN (IF x.n = 0 THEN RootNaN ELSE RootInf(SignOf(x)))
    ELSE Root(SignOf(x) * r.sg, PyDiv(Sq(x), r.q))

\* ------------------------------------------------------------- the kernel

VARIABLES names, ran, err
\* the data the notebooks are written with
VARIABLES in_shirts, in_expected_shirts, in_table
\* part_000's globals
VARIABLES df, df_totals, chi_2, p_value, row_id, col_id, o_i, e_i

VARIABLES in_samples, in_results_1, in_results_2
\* t-tests.ipynb's globals
VARIABLES n, samples, xbar, s, t_score, p_value_1tail
VARIABLES results_1, results_2, deltas, mu0
VARIABLES in_u1, in_u2
VARIABLES n_1, n_2, samples_1, samples_2, xbar_1, xbar_2, s_1_sqr, s_2_sqr
VARIABLES dof, s_pooled, p_value_2tail
\* the Z-test's statistic (t-tests.ipynb), and the statsmodels table and the
\* sum of its contributions (part_000)
VARIABLES z_score, table, chi2

kernel == <<names, ran, err>>
inputs == <<in_shirts, in_expected_shirts, in_table, in_samples, in_results_1, in_results_2,
            in_u1, in_u2>>
loopvars == <<row_id, col_id, o_i, e_i>>
chivars == <<df, df_totals, chi_2, p_value, loopvars>>
onevars == <<n, samples, xbar, s, t_score, p_value_1tail>>
pairedvars == <<results_1, results_2, deltas, mu0>>
twodata == <<n_1, n_2, samples_1, samples_2>>
twostats == <<xbar_1, xbar_2, s_1_sqr, s_2_sqr>>
twovars == <<twodata, twostats, dof, s_pooled, p_value_2tail>>
tvars == <<onevars, pairedvars, twovars>>
zvars == <<z_score>>
tablevars == <<table, chi2>>
vars == <<kernel, inputs, chivars, tvars, zvars, tablevars>>

\* the value of a name no cell has assigned yet (never read: see names)
Unbound == NaN

NoFrame == [c \in {} |-> <<>>]

NoPValue == [fn |-> "none", x |-> NaN, df |-> NaN, tails |-> 0]

\* fixed samples: the data of a section while another section's data varies
\* (the notebook's own samples are 53-bit floats drawn from a seeded generator)
SamplesFixed == <<Fin(3, 10), Fin(7, 10), Fin(8, 10)>>

Results1Fixed == Ints2Nums(<<40, 55, 70>>)

Results2Fixed == Ints2Nums(<<50, 50, 80>>)

\* sequences over S of length lo..hi
SeqsOf(S, lo, hi) == UNION {[1..m -> S] : m \in lo..hi}

\* the non-decreasing ones: one sequence for every multiset (the sums the
\* two-sample cells take of a sample do not depend on its order)
SortedSeqsOf(S, lo, hi) ==
    {q \in SeqsOf(S, lo, hi) : \A i \in 1..(Len(q) - 1) : ~Less(q[i + 1], q[i])}

Counts == {Int2Num(i) : i \in 0..MaxCount}

ExpectedCounts == {Int2Num(i) : i \in 0..MaxExpected}

\* the tables the notebooks are written with (part_000 lines 573-574, 301)
ShirtsWritten == Ints2Nums(<<28, 32, 27>>)

ExpectedShirtsWritten == Ints2Nums(<<30, 35, 30>>)

\* the columns of the contingency table, in the order df.columns gives them
ColumnNames == <<"shirts", "vests">>

Columns(nc) == {ColumnNames[j] : j \in 1..nc}

\* the columns a df of either section can hold, in the order df.columns gives them
FrameColumns == ColumnNames \o <<"expected_shirts", "expected_shirts_normed">>

TableWritten ==
    [c \in Columns(2) |->
        IF c = "shirts" THEN Ints2Nums(<<28, 32, 27>>) ELSE Ints2Nums(<<61, 62, 57>>)]

\* two values of variance 1/200, and four values of variance 1/200
U1Fixed == <<Fin(1, 10), Fin(1, 5)>>

U2Fixed == <<Fin(1, 10), Fin(1, 10), Fin(3, 20), Fin(1, 4)>>

TInputsFixed ==
    /\ in_u1 = U1Fixed /\ in_u2 = U2Fixed
    /\ in_samples = SamplesFixed
    /\ in_results_1 = Results1Fixed /\ in_results_2 = Results2Fixed

\* a kernel that has run nothing yet
FreshKernel ==
    /\ names = {} /\ ran = "start" /\ err = "none"
    /\ df = NoFrame /\ df_totals = NoFrame
    /\ chi_2 = Unbound /\ p_value = NoPValue
    /\ row_id = 0 /\ col_id = "" /\ o_i = Unbound /\ e_i = Unbound
    /\ n = 0 /\ samples = <<>> /\ xbar = Unbound /\ s = RootNaN /\ t_score = RootNaN
    /\ p_value_1tail = NoPValue
    /\ results_1 = <<>> /\ results_2 = <<>> /\ deltas = <<>> /\ mu0 = 0
    /\ n_1 = 0 /\ n_2 = 0 /\ samples_1 = <<>> /\ samples_2 = <<>>
    /\ xbar_1 = Unbound /\ xbar_2 = Unbound /\ s_1_sqr = Unbound /\ s_2_sqr = Unbound
    /\ dof = Unbound /\ s_pooled = RootNaN /\ p_value_2tail = NoPValue
    /\ z_score = Unbound /\ table = NoFrame /\ chi2 = Unbound

\* a cell stops at its first failing line with that exception
Raise(cell, exc) == ran' = cell /\ err' = exc

Done(cell) == ran' = cell /\ err' = "none"

\* ------------------- part_000: goodness of fit against the mean (cells
\* 4c78b6ae, ef6cbed3, a4b2fc6c, 32d35dba)

\* df = pd.DataFrame({"shirts": {...}})
Cell_4c78b6ae ==
    /\ df' = [c \in {"shirts"} |-> in_shirts]
    /\ names' = names \cup {"df"}
    /\ Done("4c78b6ae")
    /\ UNCHANGED <<inputs, zvars, tablevars, tvars, df_totals, chi_2, p_value, loopvars>>

\* a variant of the expected count that takes the total of the column
ExpectedFromTotal(col) == SumSkipNa(col)

\* np.mean(df["shirts"])
ExpectedFromMean(col) == NpDiv(SumSkipNa(col), Int2Num(Len(col)))

\* np.sum((col - e) ** 2 / e) for the scalar e
Chi2AgainstMean(col, e) ==
    SumSkipNa([i \in 1..Len(col) |-> NpDiv(Sq(Sub(col[i], e)), e)])

\* e_i = np.mean(df["shirts"]); chi_2 = np.sum((df["shirts"].array - e_i) ** 2 / e_i)
Cell_ef6cbed3 ==
    /\ UNCHANGED <<inputs, zvars, tablevars, tvars, df, df_totals, p_value, row_id, col_id, o_i>>
    /\ IF "df" \notin names
       THEN Raise("ef6cbed3", "NameError") /\ UNCHANGED <<e_i, chi_2, names>>
       ELSE /\ e_i' = ExpectedFromMean(df["shirts"])
            /\ chi_2' = Chi2AgainstMean(df["shirts"], e_i')
            /\ names' = names \cup {"e_i", "chi_2"}
            /\ Done("ef6cbed3")

\* the degrees of freedom the p-value cells of this section pass: the literal 2
MeanGofDof == 2

Chi2PValue(x, d) == [fn |-> "1-chi2.cdf", x |-> x, df |-> Int2Num(d), tails |-> 1]

\* p_value = 1.0 - scipy.stats.chi2.cdf(chi_2, 2)
Cell_a4b2fc6c ==
    /\ UNCHANGED <<inputs, zvars, tablevars, tvars, df, df_totals, chi_2, loopvars>>
    /\ IF "chi_2" \notin names
       THEN Raise("a4b2fc6c", "NameError") /\ UNCHANGED <<p_value, names>>
       ELSE /\ p_value' = Chi2PValue(chi_2, MeanGofDof)
            /\ names' = names \cup {"p_value"}
            /\ Done("a4b2fc6c")

\* the second example's counts
ShirtsSkewed == Ints2Nums(<<20, 21, 46>>)

\* the same three steps in one cell, on the counts 20, 21, 46
Cell_32d35dba ==
    /\ df' = [c \in {"shirts"} |-> ShirtsSkewed]
    /\ e_i' = ExpectedFromMean(ShirtsSkewed)
    /\ chi_2' = Chi2AgainstMean(ShirtsSkewed, e_i')
    /\ p_value' = Chi2PValue(chi_2', MeanGofDof)
    /\ names' = names \cup {"df", "e_i", "chi_2", "p_value"}
    /\ Done("32d35dba")
    /\ UNCHANGED <<inputs, zvars, tablevars, tvars, df_totals, row_id, col_id, o_i>>

\* a fresh kernel running the section on every small column of counts
InitMeanGof ==
    /\ FreshKernel
    /\ in_shirts \in SeqsOf(Counts, 1, MaxCat) \cup {ShirtsWritten}
    /\ in_expected_shirts = ExpectedShirtsWritten
    /\ in_table = TableWritten
    /\ TInputsFixed

NextMeanGof == Cell_4c78b6ae \/ Cell_ef6cbed3 \/ Cell_a4b2fc6c \/ Cell_32d35dba

SpecMeanGof == InitMeanGof /\ [][NextMeanGof]_vars

\* ------------------------------------- part_000: goodness of fit (cells
\* f8c0951c, 721a0bfd, 33caa50f, 4d2587fb)

\* df = pd.DataFrame({"shirts": {...}, "expected_shirts": {...}})
Cell_f8c0951c ==
    /\ df' = [c \in {"shirts", "expected_shirts"} |->
                 IF c = "shirts" THEN in_shirts ELSE in_expected_shirts]
    /\ names' = names \cup {"df"}
    /\ Done("f8c0951c")
    /\ UNCHANGED <<inputs, zvars, tablevars, tvars, df_totals, chi_2, p_value, loopvars>>

\* a variant of expected_shirts_normed that forgets to rescale
NormedUnscaled(observed, expected) == expected

\* a variant of expected_shirts_normed with the two totals exchanged
NormedInverted(observed, expected) ==
    [i \in 1..Len(expected) |->
        NpDiv(Mul(expected[i], SumSkipNa(expected)), SumSkipNa(observed))]

\* df["expected_shirts"] * df["shirts"].sum() / df["expected_shirts"].sum()
Normed(observed, expected) ==
    [i \in 1..Len(expected) |->
        NpDiv(Mul(expected[i], SumSkipNa(observed)), SumSkipNa(expected))]

\* variant: the deviations left unsquared
Chi2TermsUnsquared(observed, expected) ==
    [i \in 1..Len(observed) |-> NpDiv(Sub(observed[i], expected[i]), expected[i])]

\* (O - E) ** 2 / E, element by element
Chi2Terms(observed, expected) ==
    [i \in 1..Len(observed) |-> NpDiv(Sq(Sub(observed[i], expected[i])), expected[i])]

\* df["expected_shirts_normed"] = ...
Cell_721a0bfd ==
    /\ UNCHANGED <<inputs, zvars, tablevars, tvars, df_totals, chi_2, p_value, loopvars>>
    /\ IF "df" \notin names
       THEN Raise("721a0bfd", "NameError") /\ UNCHANGED <<df, names>>
       ELSE IF ~({"shirts", "expected_shirts"} \subseteq DOMAIN df)
       THEN Raise("721a0bfd", "KeyError") /\ UNCHANGED <<df, names>>
       ELSE /\ df' = [c \in DOMAIN df \cup {"expected_shirts_normed"} |->
                         IF c = "expected_shirts_normed"
                         THEN Normed(df["shirts"], df["expected_shirts"])
                         ELSE df[c]]
            /\ Done("721a0bfd")
            /\ UNCHANGED names

\* chi_2 = np.sum((df["shirts"] - df["expected_shirts_normed"]) ** 2 / df["expected_shirts_normed"])
Cell_33caa50f ==
    /\ UNCHANGED <<inputs, zvars, tablevars, tvars, df, df_totals, p_value, loopvars>>
    /\ IF "df" \notin names
       THEN Raise("33caa50f", "NameError") /\ UNCHANGED <<chi_2, names>>
       ELSE IF ~({"shirts", "expected_shirts_normed"} \subseteq DOMAIN df)
       THEN Raise("33caa50f", "KeyError") /\ UNCHANGED <<chi_2, names>>
       ELSE /\ chi_2' = SumSkipNa(Chi2Terms(df["shirts"], df["expected_shirts_normed"]))
            /\ names' = names \cup {"chi_2"}
            /\ Done("33caa50f")

\* the degrees of freedom the notebook's text gives: k = n - 1 - q, with q = 0
GofDofFromData == Len(df["shirts"]) - 1

\* the degrees of freedom the p-value cell passes: the literal 3-1
GofDof == 3 - 1

\* p_value = 1.0 - scipy.stats.chi2.cdf(chi_2, 3-1)
Cell_4d2587fb ==
    /\ UNCHANGED <<inputs, zvars, tablevars, tvars, df, df_totals, chi_2, loopvars>>
    /\ IF "chi_2" \notin names
       THEN Raise("4d2587fb", "NameError") /\ UNCHANGED <<p_value, names>>
       ELSE /\ p_value' = [fn |-> "1-chi2.cdf", x |-> chi_2, df |-> Int2Num(GofDof), tails |-> 1]
            /\ names' = names \cup {"p_value"}
            /\ Done("4d2587fb")

\* a fresh kernel running the goodness-of-fit section on every small table
InitGof ==
    /\ FreshKernel
    /\ \/ \E m \in 1..MaxCat :
             /\ in_shirts \in [1..m -> Counts]
             /\ in_expected_shirts \in [1..m -> ExpectedCounts]
       \/ in_shirts = ShirtsWritten /\ in_expected_shirts = ExpectedShirtsWritten
    /\ in_table = TableWritten
    /\ TInputsFixed

NextGof == Cell_f8c0951c \/ Cell_721a0bfd \/ Cell_33caa50f \/ Cell_4d2587fb

SpecGof == InitGof /\ [][NextGof]_vars

\* ---------------------------------- part_000: contingency table (cells
\* ede158fa, e7568517, d776fb77, d9af71cf)

NRows(frame) == IF DOMAIN frame = {} THEN 0 ELSE Len(frame[CHOOSE c \in DOMAIN frame : TRUE])

\* df_totals.loc['Total'] = df_totals.sum(axis=0): one more row, the column sums
WithTotalRow(frame) == [c \in DOMAIN frame |-> Append(frame[c], SumSeq(frame[c]))]

RECURSIVE SumOver(_, _, _)
\* the sum of row r of a frame over the set cols of its columns
SumOver(frame, cols, r) ==
    IF cols = {} THEN Fin(0, 1)
    ELSE LET c == CHOOSE x \in cols : TRUE
         IN  Add(frame[c][r], SumOver(frame, cols \ {c}, r))

\* df_totals.loc[:,'Total'] = df_totals.sum(axis=1): one more column, the row sums
WithTotalColumn(frame) ==
    [c \in DOMAIN frame \cup {"Total"} |->
        IF c = "Total"
        THEN [r \in 1..NRows(frame) |-> SumOver(frame, DOMAIN frame, r)]
        ELSE frame[c]]

\* df = pd.DataFrame(...); df_totals = df.copy(); the two Total assignments
Cell_ede158fa ==
    /\ df' = in_table
    /\ df_totals' = WithTotalColumn(WithTotalRow(in_table))
    /\ names' = names \cup {"df", "df_totals"}
    /\ Done("ede158fa")
    /\ UNCHANGED <<inputs, zvars, tablevars, tvars, chi_2, p_value, loopvars>>

\* a variant of get_expected that divides by the column total
get_expected_by_column(df_tots, r, c) ==
    NpDiv(Mul(df_tots["Total"][r], df_tots[c][Len(df_tots[c])]), df_tots[c][Len(df_tots[c])])

\* variant: divides by the row total instead of the grand total
get_expected_by_row(df_tots, r, c) ==
    NpDiv(Mul(df_tots["Total"][r], df_tots[c][Len(df_tots[c])]), df_tots["Total"][r])

\* df_tots.loc[row_id, "Total"] * df_tots.loc["Total", column_id] / df_tots.loc["Total", "Total"]
get_expected(df_tots, r, c) ==
    NpDiv(Mul(df_tots["Total"][r], df_tots[c][Len(df_tots[c])]),
          df_tots["Total"][Len(df_tots["Total"])])

\* def get_expected(...) and the two prints of the Primark row
Cell_e7568517 ==
    /\ names' = names \cup {"get_expected"}
    /\ ran' = "e7568517"
    /\ err' = IF "df_totals" \notin names THEN "NameError"
              ELSE IF ~({"shirts", "vests", "Total"} \subseteq DOMAIN df_totals) THEN "KeyError"
              ELSE "none"
    /\ UNCHANGED <<inputs, zvars, tablevars, chivars, tvars>>

\* the cells of a frame in the order the loop visits them: rows, then columns
\* in the order of FrameColumns
LoopCells(frame) ==
    LET cs == SelectSeq(FrameColumns, LAMBDA c : c \in DOMAIN frame)
    IN  [i \in 1..(NRows(frame) * Len(cs)) |->
            [r |-> ((i - 1) \div Len(cs)) + 1, c |-> cs[((i - 1) % Len(cs)) + 1]]]

RECURSIVE Chi2Loop(_, _, _, _)
\* chi_2 after the first m iterations of the loop
Chi2Loop(frame, tots, cells, m) ==
    IF m = 0 THEN Fin(0, 1)
    ELSE LET o == frame[cells[m].c][cells[m].r]
             e == get_expected(tots, cells[m].r, cells[m].c)
         IN  Add(Chi2Loop(frame, tots, cells, m - 1), NpDiv(Sq(Sub(o, e)), e))

\* get_expected(df_totals, row_id, col_id) returns for the cell of df at r, c:
\* the names are bound and df_totals has that row, that column and the totals
ExpectedDefinedAt(r, c) ==
    /\ {"get_expected", "df_totals"} \subseteq names
    /\ {c, "Total"} \subseteq DOMAIN df_totals
    /\ r < NRows(df_totals)

\* the iteration of the loop that raises, 0 if none does
LoopFailsAt(cells) ==
    IF \A i \in 1..Len(cells) : ExpectedDefinedAt(cells[i].r, cells[i].c) THEN 0
    ELSE CHOOSE i \in 1..Len(cells) :
            /\ ~ExpectedDefinedAt(cells[i].r, cells[i].c)
            /\ \A j \in 1..(i - 1) : ExpectedDefinedAt(cells[j].r, cells[j].c)

\* chi_2 = 0.0; for row_id ...: for col_id ...: o_i; e_i; chi_2 += (o_i - e_i) ** 2 / e_i
Cell_d776fb77 ==
    /\ UNCHANGED <<inputs, zvars, tablevars, tvars, df, df_totals, p_value>>
    /\ ran' = "d776fb77"
    /\ IF "df" \notin names \/ LoopCells(df) = <<>>
       THEN /\ chi_2' = Fin(0, 1)
            /\ names' = names \cup {"chi_2"}
            /\ err' = IF "df" \notin names THEN "NameError" ELSE "none"
            /\ UNCHANGED loopvars
       ELSE LET cells == LoopCells(df)
                f == LoopFailsAt(cells)
                at == IF f = 0 THEN cells[Len(cells)] ELSE cells[f]
                completed == IF f = 0 THEN Len(cells) ELSE f - 1
            IN  /\ chi_2' = Chi2Loop(df, df_totals, cells, completed)
                /\ row_id' = at.r /\ col_id' = at.c
                /\ o_i' = df[at.c][at.r]
                /\ e_i' = IF completed = 0 THEN e_i
                          ELSE get_expected(df_totals, cells[completed].r, cells[completed].c)
                /\ names' = names \cup {"chi_2", "row_id", "col_id", "o_i"}
                                  \cup (IF completed > 0 THEN {"e_i"} ELSE {})
                /\ err' = IF f = 0 THEN "none"
                          ELSE IF {"get_expected", "df_totals"} \subseteq names
                          THEN "KeyError" ELSE "NameError"

\* the degrees of freedom the notebook's text gives for a table: (R-1)(C-1)
ContingencyDofFromData == (NRows(df) - 1) * (Cardinality(DOMAIN df) - 1)

\* the degrees of freedom the p-value cell passes: the literal 2
ContingencyDof == 2

\* p_value = 1.0 - scipy.stats.chi2.cdf(chi_2, 2)
Cell_d9af71cf ==
    /\ UNCHANGED <<inputs, zvars, tablevars, tvars, df, df_totals, chi_2, loopvars>>
    /\ IF "chi_2" \notin names
       THEN Raise("d9af71cf", "NameError") /\ UNCHANGED <<p_value, names>>
       ELSE /\ p_value' = [fn |-> "1-chi2.cdf", x |-> chi_2,
                           df |-> Int2Num(ContingencyDof), tails |-> 1]
            /\ names' = names \cup {"p_value"}
            /\ Done("d9af71cf")

\* the tables of small counts with the notebook's two columns, shirts and vests
Tables == UNION {[Columns(2) -> [1..nr -> Counts]] : nr \in 1..MaxRows}

\* a fresh kernel running the contingency section on every small table
InitContingency ==
    /\ FreshKernel
    /\ in_table \in Tables \cup {TableWritten}
    /\ in_shirts = ShirtsWritten /\ in_expected_shirts = ExpectedShirtsWritten
    /\ TInputsFixed

NextContingency == Cell_ede158fa \/ Cell_e7568517 \/ Cell_d776fb77 \/ Cell_d9af71cf

SpecContingency == InitContingency /\ [][NextContingency]_vars

\* one kernel running the statistic cells of the goodness-of-fit and the
\* contingency sections, which share df and chi_2, on positive supplied
\* expected counts and on tables with positive marginals
InitChi2 ==
    /\ FreshKernel
    /\ \/ /\ \E m \in 1..MaxCat :
                /\ in_shirts \in [1..m -> Counts]
                /\ in_expected_shirts \in [1..m -> ExpectedCounts \ {Fin(0, 1)}]
          /\ in_table = TableWritten
       \/ /\ in_table \in {tab \in Tables :
                /\ \A r \in 1..NRows(tab) : ~IsZero(SumOver(tab, DOMAIN tab, r))
                /\ \A c \in DOMAIN tab : ~IsZero(SumSeq(tab[c]))}
          /\ in_shirts = ShirtsWritten /\ in_expected_shirts = ExpectedShirtsWritten
    /\ TInputsFixed

NextChi2 ==
    \/ Cell_f8c0951c \/ Cell_721a0bfd \/ Cell_33caa50f
    \/ Cell_ede158fa \/ Cell_e7568517 \/ Cell_d776fb77

SpecChi2 == InitChi2 /\ [][NextChi2]_vars

\* --------------- part_000: the statsmodels table (cells 529e0b2e, 5f9dd41d)

\* statsmodels.api.stats.Table(frame): the counts as floats, with every zero
\* count replaced by 0.5 when there is one (shift_zeros=True)
StatsmodelsTable(frame) ==
    [c \in DOMAIN frame |->
        [r \in 1..Len(frame[c]) |-> IF IsZero(frame[c][r]) THEN Fin(1, 2) ELSE frame[c][r]]]

\* table.fittedvalues: row total * column total / grand total
FittedValue(tab, r, c) ==
    NpDiv(Mul(SumOver(tab, DOMAIN tab, r), SumSeq(tab[c])),
          SumSeq(WithTotalColumn(tab)["Total"]))

RECURSIVE ContribsSum(_, _, _)
\* table.chi2_contribs.to_numpy().sum() over the first m cells
ContribsSum(tab, cells, m) ==
    IF m = 0 THEN Fin(0, 1)
    ELSE LET o == tab[cells[m].c][cells[m].r]
             e == FittedValue(tab, cells[m].r, cells[m].c)
         IN  Add(ContribsSum(tab, cells, m - 1), NpDiv(Sq(Sub(o, e)), e))

\* table = statsmodels.api.stats.Table(df); table.chi2_contribs
Cell_529e0b2e ==
    /\ UNCHANGED <<inputs, zvars, chivars, tvars, chi2>>
    /\ IF "df" \notin names
       THEN Raise("529e0b2e", "NameError") /\ UNCHANGED <<table, names>>
       ELSE /\ table' = StatsmodelsTable(df)
            /\ names' = names \cup {"table"}
            /\ Done("529e0b2e")

\* the value the print of cell 5f9dd41d shows: the global chi_2
Printed_5f9dd41d == chi_2

\* chi2 = table.chi2_contribs.to_numpy().sum(); print(f"... {chi_2}")
Cell_5f9dd41d ==
    /\ ran' = "5f9dd41d"
    /\ UNCHANGED <<inputs, zvars, chivars, tvars, table>>
    /\ IF "table" \notin names
       THEN err' = "NameError" /\ UNCHANGED <<chi2, names>>
       ELSE /\ chi2' = ContribsSum(table, LoopCells(table), Len(LoopCells(table)))
            /\ names' = names \cup {"chi2"}
            /\ err' = IF "chi_2" \in names THEN "none" ELSE "NameError"

NextContribs ==
    \/ NextContingency
    \/ Cell_ef6cbed3 \/ Cell_529e0b2e \/ Cell_5f9dd41d

\* the contingency section with its statsmodels cells, after the first
\* section's statistic cell
SpecContribs == InitContingency /\ [][NextContribs]_vars

\* ------------------- t-tests.ipynb: one-sample and paired T-tests (cells
\* 9ce80641, 522b7728, 4f96d5ca, 01d9c745, 4b871e38)

\* the hypothesised mean of the one-sample test: the literal 0.1
HypothesisedMean == Fin(1, 10)

\* the hypothesised difference of the paired test: mu0 = 5
Mu0 == 5

\* sum(q) / m
Mean(q, m) == PyDiv(SumSeq(q), Int2Num(m))

\* sum([(x-xb)**2 for x in q])
SumSqDev(q, xb) == SumSeq([i \in 1..Len(q) |-> Sq(Sub(q[i], xb))])

\* (xb - mu) / (sd / math.sqrt(m))
TScore(xb, mu, sd, m) == NumOverRoot(Sub(xb, mu), RootOverSqrt(sd, m))

\* random.seed(42); n = 15; samples = [...]; xbar; s; t_score, in pure Python:
\* a zero divisor raises ZeroDivisionError at its line
Cell_9ce80641 ==
    LET m == Len(in_samples)
        xb == Mean(in_samples, m)
        var == PyDiv(SumSqDev(in_samples, xb), Int2Num(m - 1))
    IN  /\ n' = m /\ samples' = in_samples
        /\ ran' = "9ce80641"
        /\ UNCHANGED <<inputs, zvars, tablevars, chivars, pairedvars, twovars, p_value_1tail>>
        /\ IF m = 0
           THEN /\ err' = "ZeroDivisionError"
                /\ names' = names \cup {"n", "samples"}
                /\ UNCHANGED <<xbar, s, t_score>>
           ELSE IF m = 1
           THEN /\ err' = "ZeroDivisionError"
                /\ xbar' = xb
                /\ names' = names \cup {"n", "samples", "xbar"}
                /\ UNCHANGED <<s, t_score>>
           ELSE IF IsZero(var)
           THEN /\ err' = "ZeroDivisionError"
                /\ xbar' = xb /\ s' = Sqrt(var)
                /\ names' = names \cup {"n", "samples", "xbar", "s"}
                /\ UNCHANGED t_score
           ELSE /\ err' = "none"
                /\ xbar' = xb /\ s' = Sqrt(var)
                /\ t_score' = TScore(xb, HypothesisedMean, Sqrt(var), m)
                /\ names' = names \cup {"n", "samples", "xbar", "s", "t_score"}

\* a variant of the tail probability taken at n degrees of freedom
TailAtN(t, m) == [fn |-> "t.sf", x |-> RootAbs(t), df |-> Int2Num(m), tails |-> 1]

\* scipy.stats.t.sf(abs(t_score), df=n-1)
OneTail(t, m) == [fn |-> "t.sf", x |-> RootAbs(t), df |-> Int2Num(m - 1), tails |-> 1]

\* p_value_1tail = scipy.stats.t.sf(abs(t_score), df=n-1), as cell `cell`
PValue1Tail(cell) ==
    /\ UNCHANGED <<inputs, zvars, tablevars, chivars, pairedvars, twovars, n, samples, xbar, s, t_score>>
    /\ IF ~({"t_score", "n"} \subseteq names)
       THEN Raise(cell, "NameError") /\ UNCHANGED <<p_value_1tail, names>>
       ELSE /\ p_value_1tail' = OneTail(t_score, n)
            /\ names' = names \cup {"p_value_1tail"}
            /\ Done(cell)

Cell_522b7728 == PValue1Tail("522b7728")

\* random.seed(44); n = 15; results_1 = [...]; results_2 = [...]
Cell_4f96d5ca ==
    /\ n' = Len(in_results_1)
    /\ results_1' = in_results_1 /\ results_2' = in_results_2
    /\ names' = names \cup {"n", "results_1", "results_2"}
    /\ Done("4f96d5ca")
    /\ UNCHANGED <<inputs, zvars, tablevars, chivars, twovars, samples, xbar, s, t_score, p_value_1tail, deltas, mu0>>

\* a variant of np.std that divides by the number of values (ddof=0)
NpStdPopulation(q) ==
    IF Len(q) < 1 THEN RootNaN
    ELSE Sqrt(PyDiv(SumSqDev(q, Mean(q, Len(q))), Int2Num(Len(q))))

\* np.std(q, ddof=1): nan for fewer than two values
NpStd(q) ==
    IF Len(q) < 2 THEN RootNaN
    ELSE Sqrt(PyDiv(SumSqDev(q, Mean(q, Len(q))), Int2Num(Len(q) - 1)))

\* deltas; xbar = sum(deltas)/n; s = np.std(deltas, ddof=1); mu0 = 5; t_score,
\* with numpy values: a zero divisor gives inf or nan and a warning
Cell_01d9c745 ==
    LET d == [i \in 1..Len(results_2) |-> Sub(results_2[i], results_1[i])]
        xb == IF d = <<>> THEN Fin(0, 1) ELSE NpDiv(SumSeq(d), Int2Num(n))
    IN  /\ ran' = "01d9c745"
        /\ UNCHANGED <<inputs, zvars, tablevars, chivars, twovars, n, samples, p_value_1tail, results_1, results_2>>
        /\ IF ~({"results_1", "results_2"} \subseteq names)
           THEN /\ err' = "NameError"
                /\ UNCHANGED <<names, deltas, xbar, s, mu0, t_score>>
           ELSE IF "n" \notin names \/ (d = <<>> /\ n = 0)
           THEN /\ err' = IF "n" \notin names THEN "NameError" ELSE "ZeroDivisionError"
                /\ deltas' = d
                /\ names' = names \cup {"deltas"}
                /\ UNCHANGED <<xbar, s, mu0, t_score>>
           ELSE /\ err' = "none"
                /\ deltas' = d /\ xbar' = xb /\ s' = NpStd(d) /\ mu0' = Mu0
                /\ t_score' = TScore(xb, Int2Num(Mu0), NpStd(d), n)
                /\ names' = names \cup {"deltas", "xbar", "s", "mu0", "t_score"}

Cell_4b871e38 == PValue1Tail("4b871e38")

\* random.random() on a grid of tenths
Uniform01 == {Fin(v, 10) : v \in 0..MaxVal}

\* int(random.random() * 100) on a grid of fives
Marks == {Int2Num(5 * v) : v \in 0..MaxVal}

\* a fresh kernel running the one-sample and paired sections on every small sample
InitOne ==
    /\ FreshKernel
    /\ \/ /\ in_samples \in SeqsOf(Uniform01, 0, MaxN)
          /\ in_results_1 = Results1Fixed /\ in_results_2 = Results2Fixed
       \/ /\ in_samples = SamplesFixed
          /\ \E m \in 0..MaxN :
                /\ in_results_1 \in [1..m -> Marks]
                /\ in_results_2 \in [1..m -> Marks]
    /\ in_u1 = U1Fixed /\ in_u2 = U2Fixed
    /\ in_shirts = ShirtsWritten /\ in_expected_shirts = ExpectedShirtsWritten
    /\ in_table = TableWritten

NextOne == Cell_9ce80641 \/ Cell_522b7728 \/ Cell_4f96d5ca \/ Cell_01d9c745 \/ Cell_4b871e38

SpecOne == InitOne /\ [][NextOne]_vars

\* ------------------------- t-tests.ipynb: two-sample T-tests (cells 502b8a46,
\* 62738b19, 647f376d, b7be6892, 14f75359, 30a71cf0, f20a2111, 3feaa1d1)

\* random.random()*2 - 0.5, element by element
Stretched(u) == [i \in 1..Len(u) |-> Sub(Mul(Int2Num(2), u[i]), Fin(1, 2))]

\* the two data cells draw the same random numbers: random.seed(43) in both
TwoSampleData(cell, second) ==
    /\ n_1' = Len(in_u1) /\ n_2' = Len(in_u2)
    /\ samples_1' = in_u1 /\ samples_2' = second
    /\ names' = names \cup {"n_1", "n_2", "samples_1", "samples_2"}
    /\ Done(cell)
    /\ UNCHANGED <<inputs, zvars, tablevars, chivars, onevars, pairedvars, twostats, dof, s_pooled, p_value_2tail>>

\* samples_2 = [random.random()*2 - 0.5 for _ in range(n_2)]
Cell_502b8a46 == TwoSampleData("502b8a46", Stretched(in_u2))

\* samples_2 = [random.random() for _ in range(n_2)]
Cell_30a71cf0 == TwoSampleData("30a71cf0", in_u2)

\* sum([(x-xb)**2 for x in q])/(m-1)
Variance(q, xb, m) == PyDiv(SumSqDev(q, xb), Int2Num(m - 1))

\* the line of the four xbar/s_sqr lines that raises: 0 when none does
StatsFailAt == IF n_1 = 0 THEN 1 ELSE IF n_2 = 0 THEN 2 ELSE IF n_1 = 1 THEN 3
               ELSE IF n_2 = 1 THEN 4 ELSE 0

\* xbar_1 = ...; xbar_2 = ...; s_1_sqr = ...; s_2_sqr = ..., up to the first
\* line that divides by zero
TwoSampleStats ==
    LET f == StatsFailAt
    IN  /\ xbar_1' = IF f = 1 THEN xbar_1 ELSE Mean(samples_1, n_1)
        /\ xbar_2' = IF f \in {1, 2} THEN xbar_2 ELSE Mean(samples_2, n_2)
        /\ s_1_sqr' = IF f \in {1, 2, 3} THEN s_1_sqr ELSE Variance(samples_1, xbar_1', n_1)
        /\ s_2_sqr' = IF f # 0 THEN s_2_sqr ELSE Variance(samples_2, xbar_2', n_2)

StatsNames ==
    LET f == StatsFailAt
    IN  IF f = 1 THEN {} ELSE IF f = 2 THEN {"xbar_1"}
        ELSE IF f = 3 THEN {"xbar_1", "xbar_2"}
        ELSE IF f = 4 THEN {"xbar_1", "xbar_2", "s_1_sqr"}
        ELSE {"xbar_1", "xbar_2", "s_1_sqr", "s_2_sqr"}

\* s1/m1 + s2/m2
SumOfRatios(s1, s2, m1, m2) == Add(PyDiv(s1, Int2Num(m1)), PyDiv(s2, Int2Num(m2)))

\* (xb1 - xb2) / math.sqrt(s1/m1 + s2/m2)
WelchTScore(xb1, xb2, s1, s2, m1, m2) ==
    NumOverRoot(Sub(xb1, xb2), Sqrt(SumOfRatios(s1, s2, m1, m2)))

\* the Welch t-score cell
Cell_62738b19 ==
    /\ ran' = "62738b19"
    /\ UNCHANGED <<inputs, zvars, tablevars, chivars, pairedvars, n, samples, xbar, s, p_value_1tail>>
    /\ UNCHANGED <<twodata, dof, s_pooled, p_value_2tail>>
    /\ IF ~({"n_1", "n_2", "samples_1", "samples_2"} \subseteq names)
       THEN err' = "NameError" /\ UNCHANGED <<names, twostats, t_score>>
       ELSE /\ TwoSampleStats
            /\ IF StatsFailAt # 0
               THEN /\ err' = "ZeroDivisionError"
                    /\ names' = names \cup StatsNames
                    /\ UNCHANGED t_score
               ELSE IF IsZero(SumOfRatios(s_1_sqr', s_2_sqr', n_1, n_2))
               THEN /\ err' = "ZeroDivisionError"
                    /\ names' = names \cup StatsNames
                    /\ UNCHANGED t_score
               ELSE /\ err' = "none"
                    /\ t_score' = WelchTScore(xbar_1', xbar_2', s_1_sqr', s_2_sqr', n_1, n_2)
                    /\ names' = names \cup StatsNames \cup {"t_score"}

\* def get_welchs_ttest_dof(s1sqr, s2sqr, n1, n2)
Cell_647f376d ==
    /\ names' = names \cup {"get_welchs_ttest_dof"}
    /\ Done("647f376d")
    /\ UNCHANGED <<inputs, zvars, tablevars, chivars, tvars>>

\* the body of get_welchs_ttest_dof divides by zero
WelchDofRaises(s1sqr, s2sqr, n1, n2) ==
    \/ n1 = 0 \/ n2 = 0 \/ n1 = 1 \/ n2 = 1
    \/ IsZero(Add(PyDiv(Sq(PyDiv(s1sqr, Int2Num(n1))), Int2Num(n1 - 1)),
                  PyDiv(Sq(PyDiv(s2sqr, Int2Num(n2))), Int2Num(n2 - 1))))

\* variant: the numerator of the Welch-Satterthwaite equation left unsquared
get_welchs_ttest_dof_unsquared(s1sqr, s2sqr, n1, n2) ==
    LET numerator == SumOfRatios(s1sqr, s2sqr, n1, n2)
        denominator == Add(PyDiv(Sq(PyDiv(s1sqr, Int2Num(n1))), Int2Num(n1 - 1)),
                           PyDiv(Sq(PyDiv(s2sqr, Int2Num(n2))), Int2Num(n2 - 1)))
    IN  PyDiv(numerator, denominator)

\* numerator / denominator of the Welch-Satterthwaite equation
get_welchs_ttest_dof(s1sqr, s2sqr, n1, n2) ==
    LET numerator == Sq(SumOfRatios(s1sqr, s2sqr, n1, n2))
        denominator == Add(PyDiv(Sq(PyDiv(s1sqr, Int2Num(n1))), Int2Num(n1 - 1)),
                           PyDiv(Sq(PyDiv(s2sqr, Int2Num(n2))), Int2Num(n2 - 1)))
    IN  PyDiv(numerator, denominator)

\* dof = get_welchs_ttest_dof(s_1_sqr, s_2_sqr, n_1, n_2)
Cell_b7be6892 ==
    /\ ran' = "b7be6892"
    /\ UNCHANGED <<inputs, zvars, tablevars, chivars, onevars, pairedvars, twodata, twostats, s_pooled, p_value_2tail>>
    /\ IF ~({"get_welchs_ttest_dof", "s_1_sqr", "s_2_sqr", "n_1", "n_2"} \subseteq names)
       THEN err' = "NameError" /\ UNCHANGED <<names, dof>>
       ELSE IF WelchDofRaises(s_1_sqr, s_2_sqr, n_1, n_2)
       THEN err' = "ZeroDivisionError" /\ UNCHANGED <<names, dof>>
       ELSE /\ dof' = get_welchs_ttest_dof(s_1_sqr, s_2_sqr, n_1, n_2)
            /\ names' = names \cup {"dof"}
            /\ err' = "none"

\* variant: the two-tailed p-value without abs()
TwoTailSigned(t, d) == [fn |-> "t.sf", x |-> t, df |-> d, tails |-> 2]

\* scipy.stats.t.sf(abs(t_score), df=dof) * 2
TwoTail(t, d) == [fn |-> "t.sf", x |-> RootAbs(t), df |-> d, tails |-> 2]

\* p_value_2tail = scipy.stats.t.sf(abs(t_score), df=dof) * 2, as cell `cell`
PValue2Tail(cell) ==
    /\ UNCHANGED <<inputs, zvars, tablevars, chivars, onevars, pairedvars, twodata, twostats, dof, s_pooled>>
    /\ IF ~({"t_score", "dof"} \subseteq names)
       THEN Raise(cell, "NameError") /\ UNCHANGED <<p_value_2tail, names>>
       ELSE /\ p_value_2tail' = TwoTail(t_score, dof)
            /\ names' = names \cup {"p_value_2tail"}
            /\ Done(cell)

Cell_14f75359 == PValue2Tail("14f75359")

\* a variant of the pooled variance that weights by the sizes m1 and m2
PooledVarianceBySize(s1, s2, m1, m2, d) ==
    PyDiv(Add(Mul(Int2Num(m1), s1), Mul(Int2Num(m2), s2)), Int2Num(d))

\* ((m1-1)*s1 + (m2-1)*s2)/d
PooledVariance(s1, s2, m1, m2, d) ==
    PyDiv(Add(Mul(Int2Num(m1 - 1), s1), Mul(Int2Num(m2 - 1), s2)), Int2Num(d))

\* a variant of the pooled t-score that leaves out sqrt(1/m1 + 1/m2)
PooledTScoreUnscaled(xb1, xb2, sp, m1, m2) == NumOverRoot(Sub(xb1, xb2), sp)

\* (xb1 - xb2) / (sp * math.sqrt(1.0/m1 + 1.0/m2))
PooledTScore(xb1, xb2, sp, m1, m2) ==
    NumOverRoot(Sub(xb1, xb2), RootTimesSqrt(sp, Add(Fin(1, m1), Fin(1, m2))))

\* the pooled t-score cell
Cell_f20a2111 ==
    /\ ran' = "f20a2111"
    /\ UNCHANGED <<inputs, zvars, tablevars, chivars, pairedvars, n, samples, xbar, s, p_value_1tail>>
    /\ UNCHANGED <<twodata, p_value_2tail>>
    /\ IF ~({"n_1", "n_2", "samples_1", "samples_2"} \subseteq names)
       THEN err' = "NameError" /\ UNCHANGED <<names, twostats, dof, s_pooled, t_score>>
       ELSE /\ TwoSampleStats
            /\ IF StatsFailAt # 0
               THEN /\ err' = "ZeroDivisionError"
                    /\ names' = names \cup StatsNames
                    /\ UNCHANGED <<dof, s_pooled, t_score>>
               ELSE LET d == n_1 + n_2 - 2
                        sp == Sqrt(PooledVariance(s_1_sqr', s_2_sqr', n_1, n_2, d))
                    IN  /\ dof' = Int2Num(d)
                        /\ s_pooled' = sp
                        /\ IF RootIsZero(sp)
                           THEN /\ err' = "ZeroDivisionError"
                                /\ names' = names \cup StatsNames \cup {"dof", "s_pooled"}
                                /\ UNCHANGED t_score
                           ELSE /\ err' = "none"
                                /\ t_score' = PooledTScore(xbar_1', xbar_2', sp, n_1, n_2)
                                /\ names' = names \cup StatsNames
                                                  \cup {"dof", "s_pooled", "t_score"}

Cell_3feaa1d1 == PValue2Tail("3feaa1d1")

\* every small sample (up to the order of its values, which no sum depends
\* on) against a fixed one
InitTwo ==
    /\ FreshKernel
    /\ \/ in_u1 \in SortedSeqsOf(Uniform01, 0, MaxN2) /\ in_u2 = U2Fixed
       \/ in_u1 = U1Fixed /\ in_u2 \in SortedSeqsOf(Uniform01, 0, MaxN2)
    /\ in_samples = SamplesFixed
    /\ in_results_1 = Results1Fixed /\ in_results_2 = Results2Fixed
    /\ in_shirts = ShirtsWritten /\ in_expected_shirts = ExpectedShirtsWritten
    /\ in_table = TableWritten

NextTwo ==
    \/ Cell_502b8a46 \/ Cell_62738b19 \/ Cell_647f376d \/ Cell_b7be6892 \/ Cell_14f75359
    \/ Cell_30a71cf0 \/ Cell_f20a2111 \/ Cell_3feaa1d1

SpecTwo == InitTwo /\ [][NextTwo]_vars

\* the Welch cells on two samples that both vary (either may be constant)
InitWelch ==
    /\ FreshKernel
    /\ in_u1 \in SortedSeqsOf(Uniform01, 0, MaxN2)
    /\ in_u2 \in SortedSeqsOf(Uniform01, 0, MaxN2)
    /\ in_samples = SamplesFixed
    /\ in_results_1 = Results1Fixed /\ in_results_2 = Results2Fixed
    /\ in_shirts = ShirtsWritten /\ in_expected_shirts = ExpectedShirtsWritten
    /\ in_table = TableWritten

NextWelch ==
    \/ Cell_502b8a46 \/ Cell_30a71cf0 \/ Cell_62738b19 \/ Cell_647f376d
    \/ Cell_b7be6892 \/ Cell_14f75359

SpecWelch == InitWelch /\ [][NextWelch]_vars

\* ------------------------------ t-tests.ipynb: Z-test (cells d6b4a686,
\* 8423e18e, ef64df53)

\* abs(x) of a float
NumAbs(x) == IF x.k = "fin" THEN Fin(Abs(x.n), x.d) ELSE IF x.k = "inf" THEN PInf ELSE NaN

\* z_score = (7.1 - 10)/3
Cell_d6b4a686 ==
    /\ z_score' = PyDiv(Sub(Fin(71, 10), Int2Num(10)), Int2Num(3))
    /\ names' = names \cup {"z_score"}
    /\ Done("d6b4a686")
    /\ UNCHANGED <<inputs, tablevars, chivars, tvars>>

\* scipy.stats.norm.sf(abs(z)): the standard normal is Student's t at
\* infinitely many degrees of freedom
NormSf(z) == [fn |-> "norm.sf", x |-> NumAbs(z), df |-> PInf, tails |-> 1]

\* a variant of the two-tailed value that doubles the statistic instead
NormTwoTailOfDouble(z) == [NormSf(z) EXCEPT !.x = Mul(Int2Num(2), NumAbs(z))]

\* scipy.stats.norm.sf(abs(z)) * 2
NormTwoTail(z) == [NormSf(z) EXCEPT !.tails = 2]

\* p_value_2tail = scipy.stats.norm.sf(abs(z_score)) * 2
Cell_8423e18e ==
    /\ UNCHANGED <<inputs, zvars, tablevars, chivars, onevars, pairedvars>>
    /\ UNCHANGED <<twodata, twostats, dof, s_pooled>>
    /\ IF "z_score" \notin names
       THEN Raise("8423e18e", "NameError") /\ UNCHANGED <<p_value_2tail, names>>
       ELSE /\ p_value_2tail' = NormTwoTail(z_score)
            /\ names' = names \cup {"p_value_2tail"}
            /\ Done("8423e18e")

\* p_value_1tail = scipy.stats.norm.sf(abs(z_score))
Cell_ef64df53 ==
    /\ UNCHANGED <<inputs, zvars, tablevars, chivars, pairedvars, twovars>>
    /\ UNCHANGED <<n, samples, xbar, s, t_score>>
    /\ IF "z_score" \notin names
       THEN Raise("ef64df53", "NameError") /\ UNCHANGED <<p_value_1tail, names>>
       ELSE /\ p_value_1tail' = NormSf(z_score)
            /\ names' = names \cup {"p_value_1tail"}
            /\ Done("ef64df53")

\* ------------------- t-tests.ipynb: the scipy.stats cells of the one-sample
\* and paired sections (cells 34d64e31, 9620c8fc)

RootNeg(r) == [r EXCEPT !.sg = -r.sg]

\* the statistic scipy.stats computes for the values q against the mean mu:
\* (mean - mu) / sqrt(var(ddof=1) / n), in numpy arithmetic
ScipyTStatistic(q, mu) ==
    IF Len(q) = 0 THEN RootNaN
    ELSE LET m == Len(q)
             xb == Mean(q, m)
             var == NpDiv(SumSqDev(q, xb), Int2Num(m - 1))
         IN  NumOverRoot(Sub(xb, mu), Sqrt(NpDiv(var, Int2Num(m))))

\* scipy.stats.ttest_1samp(q, mu, alternative="greater"): p = sf(t)
ttest_1samp_greater(q, mu) ==
    LET t == ScipyTStatistic(q, mu)
    IN  [statistic |-> t,
         pvalue |-> [fn |-> "t.sf", x |-> t, df |-> Int2Num(Len(q) - 1), tails |-> 1]]

\* scipy.stats.ttest_rel(a, b, alternative="less"): the one-sample test of
\* a - b against 0, p = cdf(t) = sf(-t)
ttest_rel_less(a, b) ==
    LET t == ScipyTStatistic([i \in 1..Len(a) |-> Sub(a[i], b[i])], Fin(0, 1))
    IN  [statistic |-> t,
         pvalue |-> [fn |-> "t.sf", x |-> RootNeg(t), df |-> Int2Num(Len(a) - 1), tails |-> 1]]

\* np.array(results_2) - mu0
LessMu0(q, mu) == [i \in 1..Len(q) |-> Sub(q[i], Int2Num(mu))]

\* the value cell 34d64e31 displays
Out_34d64e31 == ttest_1samp_greater(samples, HypothesisedMean)

\* scipy.stats.ttest_1samp(samples, 0.1, alternative="greater")
Cell_34d64e31 ==
    /\ ran' = "34d64e31"
    /\ err' = IF "samples" \in names THEN "none" ELSE "NameError"
    /\ UNCHANGED <<inputs, zvars, tablevars, chivars, tvars, names>>

\* the value cell 9620c8fc displays
Out_9620c8fc == ttest_rel_less(LessMu0(results_2, mu0), results_1)

\* scipy.stats.ttest_rel(np.array(results_2)-mu0, results_1, alternative="less")
Cell_9620c8fc ==
    /\ ran' = "9620c8fc"
    /\ err' = IF {"results_1", "results_2", "mu0"} \subseteq names THEN "none" ELSE "NameError"
    /\ UNCHANGED <<inputs, zvars, tablevars, chivars, tvars, names>>

NextScipyT == Cell_34d64e31 \/ Cell_9620c8fc

NextZ == Cell_d6b4a686 \/ Cell_8423e18e \/ Cell_ef64df53

\* the Z-test, the one-sample T-test and the paired T-test, with their
\* scipy.stats cells, in one kernel
NextTails == NextZ \/ NextOne \/ NextScipyT

SpecTails == InitOne /\ [][NextTails]_vars

\* the same cells on the data the sections are written with
InitWritten ==
    /\ FreshKernel
    /\ TInputsFixed
    /\ in_shirts = ShirtsWritten /\ in_expected_shirts = ExpectedShirtsWritten
    /\ in_table = TableWritten

SpecTailsWritten == InitWritten /\ [][NextTails]_vars

\* ----------------------------------------------- the range of a p-value

\* where sf(x) lies for a statistic of kind k and sign sg: the survival
\* function of a distribution symmetric about 0 falls from 1 to 0 and takes
\* 1/2 at 0; scipy returns nan for a nan statistic or an invalid df
SfRange(k, sg, dfok) ==
    IF k = "nan" \/ ~dfok THEN "nan"
    ELSE IF k = "inf" THEN (IF sg > 0 THEN "0" ELSE "1")
    ELSE IF sg = 0 THEN "1/2"
    ELSE IF sg > 0 THEN "(0,1/2)"
    ELSE "(1/2,1)"

\* where 2 * p lies for p in the range c
DoubledRange(c) ==
    CASE c = "nan" -> "nan"
      [] c = "0" -> "0"
      [] c = "(0,1/2)" -> "(0,1)"
      [] c = "1/2" -> "1"
      [] c = "(1/2,1)" -> "(1,2)"
      [] c = "1" -> "2"

\* where 1 - chi2.cdf(x, df) lies: the chi-squared distribution lives on x > 0
Chi2UpperRange(x, dfok) ==
    IF x.k = "nan" \/ ~dfok THEN "nan"
    ELSE IF x.k = "inf" THEN (IF x.n > 0 THEN "0" ELSE "1")
    ELSE IF x.n <= 0 THEN "1"
    ELSE "(0,1)"

\* a df scipy.stats accepts: positive (norm has none)
DfOk(d) == d.k # "nan" /\ d.n > 0

\* where a p-value that scipy.stats returned lies
PRange(p) ==
    LET one == CASE p.fn = "t.sf" -> SfRange(p.x.k, p.x.sg, DfOk(p.df))
                 [] p.fn = "norm.sf" -> SfRange(p.x.k, SignOf(p.x), TRUE)
                 [] p.fn = "1-chi2.cdf" -> Chi2UpperRange(p.x, DfOk(p.df))
    IN  IF p.tails = 2 THEN DoubledRange(one) ELSE one

InUnitInterval(c) == c \in {"0", "(0,1/2)", "1/2", "(1/2,1)", "(0,1)", "1"}

\* the one-sample test and Welch's test side by side: every small sample of
\* one against a fixed sample of the other
InitSmall ==
    /\ FreshKernel
    /\ \/ /\ in_samples \in SeqsOf(Uniform01, 0, MaxN)
          /\ in_u1 = U1Fixed /\ in_u2 = U2Fixed
       \/ /\ in_samples = SamplesFixed
          /\ \/ in_u1 \in SortedSeqsOf(Uniform01, 0, MaxN2) /\ in_u2 = U2Fixed
             \/ in_u1 = U1Fixed /\ in_u2 \in SortedSeqsOf(Uniform01, 0, MaxN2)
    /\ in_results_1 = Results1Fixed /\ in_results_2 = Results2Fixed
    /\ in_shirts = ShirtsWritten /\ in_expected_shirts = ExpectedShirtsWritten
    /\ in_table = TableWritten

NextSmall ==
    \/ Cell_9ce80641 \/ Cell_522b7728
    \/ Cell_502b8a46 \/ Cell_62738b19 \/ Cell_647f376d \/ Cell_b7be6892

SpecSmall == InitSmall /\ [][NextSmall]_vars

\* --------------------------------------------------- goodness of fit: claims

AllPositive(q) == \A i \in 1..Len(q) : IsFin(q[i]) /\ q[i].n > 0

HasColumns(cols) == "df" \in names /\ cols \subseteq DOMAIN df

\* the statistic cell has just run to its end on the table df holds
GofStatisticRan == ran = "33caa50f" /\ err = "none"

\* C4 (as claimed): the p-value of a goodness-of-fit test on n categories is
\* taken at n - 1 - q degrees of freedom (q = 0 in the notebook), and when
\* that number is not positive the step fails with InvalidInputError and
\* produces no p-value.
C4_DofIsCategoriesMinusOne ==
    (ran = "4d2587fb" /\ HasColumns({"shirts"}) /\ "chi_2" \in names) =>
        IF GofDofFromData <= 0
        THEN err = "InvalidInputError"
        ELSE err = "none" /\ p_value.df = Int2Num(GofDofFromData)

\* C6 (as claimed): a goodness-of-fit input with an expected count <= 0 is
\* rejected with InvalidInputError before any statistic is computed.
C6_NonPositiveExpectedRejected ==
    (ran = "33caa50f" /\ HasColumns({"expected_shirts", "expected_shirts_normed"})
        /\ ~AllPositive(df["expected_shirts"])) =>
        err = "InvalidInputError" /\ "chi_2" \notin names

\* C9: once the expected distribution is normalised (all supplied expected
\* counts positive), the normalised expected counts total the observed counts.
C9_NormedTotalsAgree ==
    (HasColumns({"expected_shirts_normed"}) /\ AllPositive(df["expected_shirts"])) =>
        SumSeq(df["expected_shirts_normed"]) = SumSeq(df["shirts"])

\* C9 witness: a normalised table whose supplied expected counts are positive,
\* differ from one another and total something else than the observed counts
C9_Witness ==
    /\ HasColumns({"expected_shirts_normed"})
    /\ AllPositive(df["expected_shirts"])
    /\ SumSeq(df["expected_shirts"]) # SumSeq(df["shirts"])
    /\ \E i, j \in 1..Len(df["expected_shirts"]) :
          df["expected_shirts"][i] # df["expected_shirts"][j]
    /\ ~IsZero(SumSeq(df["shirts"]))

Scales == {Fin(k, 1) : k \in 2..MaxScale} \cup {Fin(1, k) : k \in 2..MaxScale}

Scaled(k, q) == [i \in 1..Len(q) |-> Mul(k, q[i])]

\* the statistic of the goodness-of-fit section for a table (observed, expected)
GofStatistic(observed, expected) ==
    SumSkipNa(Chi2Terms(observed, Normed(observed, expected)))

\* C10: the statistic the notebook computed for (observed, expected) is the
\* statistic of (observed, k * expected) for every factor k > 0, when all
\* expected counts are positive; the degrees of freedom do not depend on
\* the table at all.
C10_RescalingInvariant ==
    (GofStatisticRan /\ AllPositive(df["expected_shirts"])) =>
        \A k \in Scales : GofStatistic(df["shirts"], Scaled(k, df["expected_shirts"])) = chi_2

\* C10 witness: a finite non-zero statistic from a non-uniform expected vector
C10_Witness ==
    /\ GofStatisticRan
    /\ AllPositive(df["expected_shirts"])
    /\ IsFin(chi_2) /\ ~IsZero(chi_2)
    /\ \E i, j \in 1..Len(df["expected_shirts"]) :
          df["expected_shirts"][i] # df["expected_shirts"][j]

\* ------------------------------------------------- contingency table: claims

\* some row total or some column total of the table df holds is zero
HasZeroMarginal ==
    \/ \E c \in DOMAIN df : IsZero(SumSeq(df[c]))
    \/ \E r \in 1..NRows(df) : IsZero(SumOver(df, DOMAIN df, r))

\* C5 (as claimed): the contingency statistic of a table with a zero row or
\* column total fails with InvalidInputError; no nan or infinite statistic is
\* produced.
C5_ZeroMarginalRejected ==
    (ran = "d776fb77" /\ {"df", "df_totals", "get_expected"} \subseteq names
        /\ HasZeroMarginal) =>
        err = "InvalidInputError" /\ IsFin(chi_2)

\* ----------------------------------------------------------- T-tests: claims

IsConstant(q) == \A i, j \in 1..Len(q) : q[i] = q[j]

\* the pooled statistic cell has just run to its end on two samples whose
\* sample variances are equal and not zero
PooledRanOnEqualVariances ==
    /\ ran = "f20a2111" /\ err = "none"
    /\ s_1_sqr = s_2_sqr /\ ~IsZero(s_1_sqr)

C2_ConstantSampleRejected ==
    /\ (ran = "9ce80641" /\ n >= 2 /\ IsConstant(samples)) =>
           /\ "s" \in names /\ RootIsZero(s)
           /\ err = "InvalidInputError"
    /\ (ran = "01d9c745" /\ "deltas" \in names /\ "n" \in names
           /\ n = Len(deltas) /\ n >= 2 /\ IsConstant(deltas)) =>
           err = "InvalidInputError"

StatisticCells == {"9ce80641", "01d9c745"}

\* C7 (as claimed): after a statistic step has failed on a division by zero,
\* the names the p-value step reads (t_score, n) are not all bound, so that no
\* p-value can be produced from a statistic of an earlier calculation.
C7_NoStatisticLeftAfterFailure ==
    (ran \in StatisticCells /\ err = "ZeroDivisionError") =>
        ~({"t_score", "n"} \subseteq names)

\* the samples Welch's section is written with give a defined test
WelchDefinedOn(a, b) ==
    /\ Len(a) >= 2 /\ Len(b) >= 2
    /\ ~IsZero(SumOfRatios(Variance(a, Mean(a, Len(a)), Len(a)),
                           Variance(b, Mean(b, Len(b)), Len(b)), Len(a), Len(b)))

\* Welch's two-tailed p-value of the samples a and b
WelchPValueOf(a, b) ==
    LET xa == Mean(a, Len(a))
        xb == Mean(b, Len(b))
        va == Variance(a, xa, Len(a))
        vb == Variance(b, xb, Len(b))
    IN  TwoTail(WelchTScore(xa, xb, va, vb, Len(a), Len(b)),
                get_welchs_ttest_dof(va, vb, Len(a), Len(b)))

\* C8 (as claimed): in whatever order the cells are run, the p-value that the
\* p-value cell of Welch's section reports is Welch's p-value of the samples
\* that section is written with.
C8_WelchPValueFromOwnSamples ==
    (ran = "14f75359" /\ err = "none" /\ WelchDefinedOn(in_u1, Stretched(in_u2))) =>
        p_value_2tail = WelchPValueOf(in_u1, Stretched(in_u2))

PValueNames == {"p_value", "p_value_1tail", "p_value_2tail"}

PValueNamed(nm) ==
    IF nm = "p_value" THEN p_value
    ELSE IF nm = "p_value_1tail" THEN p_value_1tail
    ELSE p_value_2tail

\* C11 (as claimed): every p-value a cell has produced lies in [0,1].
C11_PValuesInUnitInterval ==
    \A nm \in PValueNames \cap names : InUnitInterval(PRange(PValueNamed(nm)))

\* 2 * p of a one-tailed p
Twice(p) == [p EXCEPT !.tails = 2 * p.tails]

TailCells == Cell_8423e18e \/ Cell_ef64df53 \/ Cell_522b7728 \/ Cell_4b871e38

\* C12: choosing the tail is a step after the statistic: the p-value cells
\* leave the statistic and the names the degrees of freedom are read from
\* unchanged, and the two-tailed p-value of the Z-test is twice the
\* one-tailed p-value of the same z_score.
C12_TailingIsPostProcessing ==
    /\ [][TailCells => UNCHANGED <<z_score, t_score, n, dof>>]_vars
    /\ []((ran = "ef64df53" /\ err = "none" /\ "p_value_2tail" \in names) =>
              p_value_2tail = Twice(p_value_1tail))

\* C12 witness: both tails of the Z-test have been computed
C12_Witness ==
    /\ ran = "ef64df53" /\ err = "none" /\ "p_value_2tail" \in names
    /\ p_value_1tail.x = Fin(29, 30)

\* ------------------------------------- contingency table: further claims

\* C13 (as claimed): the p-value of the contingency test of an R x C table,
\* R >= 2 and C >= 2, is taken at (R-1)*(C-1) degrees of freedom, computed
\* from the shape of the table.
C13_DofFromShape ==
    (ran = "d9af71cf" /\ err = "none" /\ "df" \in names
        /\ NRows(df) >= 2 /\ Cardinality(DOMAIN df) >= 2) =>
        p_value.df = Int2Num(ContingencyDofFromData)

RECURSIVE DivMod(_, _, _)
\* <<floor(a * 10^k / b), (a * 10^k) mod b>> for a >= 0, b > 0, by long division
DivMod(a, b, k) ==
    IF k = 0 THEN <<a \div b, a % b>>
    ELSE LET p == DivMod(a, b, k - 1)
         IN  <<p[1] * 10 + (p[2] * 10) \div b, (p[2] * 10) % b>>

\* x >= 0 rounded to `places` decimals, in units of 10^-places
RoundTo(x, places) == (DivMod(x.n, x.d, places + 1)[1] + 5) \div 10

\* the statistic cell has just run to its end on the table the section is
\* written with
WrittenTableStatisticRan ==
    /\ ran = "d776fb77" /\ err = "none"
    /\ df = TableWritten /\ "df_totals" \in names

\* C15: for the table Primark [28,61], Debenhams [32,62], Next [27,57] the row
\* totals are 89, 94, 84, the column totals 87, 180, the grand total 267, the
\* expected counts of the Primark row 29 and 60, the statistic rounds to
\* 0.1496, and the p-value is taken at 2 degrees of freedom.
C15_WrittenTable ==
    /\ WrittenTableStatisticRan =>
           /\ df_totals["Total"] = Ints2Nums(<<89, 94, 84, 267>>)
           /\ df_totals["shirts"][4] = Int2Num(87)
           /\ df_totals["vests"][4] = Int2Num(180)
           /\ get_expected(df_totals, 1, "shirts") = Int2Num(29)
           /\ get_expected(df_totals, 1, "vests") = Int2Num(60)
           /\ IsFin(chi_2) /\ RoundTo(chi_2, 4) = 1496
    /\ (ran = "d9af71cf" /\ err = "none") => p_value.df = Int2Num(2)

\* C15 witness: the statistic of the written table
C15_Witness == WrittenTableStatisticRan /\ chi_2 = Fin(114187, 763280)

\* ------------------------------------ one-sample and paired: further claims

\* the t-score the one-sample cell 9ce80641 computes, for the values q
\* against the mean mu
OneSampleTScore(q, mu) ==
    LET m == Len(q)
        xb == Mean(q, m)
    IN  TScore(xb, mu, Sqrt(NpDiv(SumSqDev(q, xb), Int2Num(m - 1))), m)

\* the paired statistic cell has just run to its end on non-constant deltas,
\* with the n of its own data cell
PairedRanOnVaryingDeltas ==
    /\ ran = "01d9c745" /\ err = "none"
    /\ n = Len(deltas) /\ ~IsConstant(deltas)

\* C14: on equal-length samples with non-constant deltas the paired t-score is
\* the one-sample t-score of the deltas against mu0 and the statistic of the
\* paired test against 0 of (results_2 - mu0, results_1), the form passed to
\* ttest_rel; its p-value is taken at n - 1 degrees of freedom.
C14_PairedIsOneSampleOfDeltas ==
    /\ PairedRanOnVaryingDeltas =>
           /\ t_score = OneSampleTScore(deltas, Int2Num(mu0))
           /\ t_score = Out_9620c8fc.statistic
           /\ Out_9620c8fc.pvalue.df = Int2Num(n - 1)
    /\ (ran = "4b871e38" /\ err = "none") => p_value_1tail.df = Int2Num(n - 1)

\* C14 witness: varying deltas whose mean is not mu0
C14_Witness == PairedRanOnVaryingDeltas /\ t_score.k = "fin" /\ t_score.sg # 0

\* the hand-computed one-tailed p-value is the one of the current statistic,
\* and that statistic is a finite one
HandPValueCurrent ==
    /\ {"p_value_1tail", "t_score", "n"} \subseteq names
    /\ p_value_1tail = OneTail(t_score, n)
    /\ n >= 2 /\ t_score.k = "fin"

\* C18 (as claimed): whatever the sign of the t statistic, the hand-computed
\* one-tailed p-value is the p-value scipy.stats gives for the stated
\* alternative: ttest_1samp(..., alternative="greater") for the one-sample
\* test and ttest_rel(..., alternative="less") for the paired test.
C18_HandPValueIsLibraryPValue ==
    /\ (ran = "34d64e31" /\ err = "none" /\ HandPValueCurrent
           /\ n = Len(samples) /\ t_score = OneSampleTScore(samples, HypothesisedMean)) =>
           p_value_1tail = Out_34d64e31.pvalue
    /\ (ran = "9620c8fc" /\ err = "none" /\ HandPValueCurrent
           /\ "deltas" \in names /\ n = Len(deltas)
           /\ t_score = OneSampleTScore(deltas, Int2Num(mu0))) =>
           p_value_1tail = Out_9620c8fc.pvalue

\* ------------------------------------ goodness of fit against the mean: claims

\* the statistic cell has just run to its end on the counts 28, 32, 27
WrittenShirtsStatisticRan ==
    /\ ran = "ef6cbed3" /\ err = "none"
    /\ df["shirts"] = ShirtsWritten

\* C16: for the counts 28, 32, 27 with no expected distribution the expected
\* count of every category is their mean 29, the statistic is 14/29, which
\* rounds to 0.4828, and the p-value is taken at 2 degrees of freedom.
C16_WrittenShirts ==
    /\ WrittenShirtsStatisticRan =>
           /\ e_i = Int2Num(29)
           /\ chi_2 = Fin(14, 29) /\ RoundTo(chi_2, 4) = 4828
    /\ (ran = "a4b2fc6c" /\ err = "none") => p_value.df = Int2Num(2)

\* C16 witness: that statistic has then been turned into a p-value
C16_Witness ==
    /\ ran = "a4b2fc6c" /\ err = "none"
    /\ df["shirts"] = ShirtsWritten /\ p_value.x = Fin(14, 29)

\* ------------------------------------------------ pooled variance: claims

\* the pooled statistic cell has just run on two samples of 2 values or more
PooledRanOnTwoOrMore ==
    /\ ran = "f20a2111" /\ {"n_1", "n_2", "s_pooled"} \subseteq names
    /\ n_1 >= 2 /\ n_2 >= 2

\* C17: the pooled variance (the square of s_pooled) lies between the smaller
\* and the larger of the two sample variances, and is their common value when
\* they are equal.
C17_PooledVarianceIsWeightedAverage ==
    PooledRanOnTwoOrMore =>
        /\ ~Less(s_pooled.q, s_1_sqr) \/ ~Less(s_pooled.q, s_2_sqr)
        /\ ~Less(s_1_sqr, s_pooled.q) \/ ~Less(s_2_sqr, s_pooled.q)
        /\ s_1_sqr = s_2_sqr => s_pooled.q = s_1_sqr

\* C17 witness: different variances, different sizes, and a pooled variance
\* strictly between the two
C17_Witness ==
    /\ PooledRanOnTwoOrMore
    /\ n_1 # n_2
    /\ Less(s_1_sqr, s_pooled.q) /\ Less(s_pooled.q, s_2_sqr)

\* ------------------------------------------- statsmodels table: claims

\* C19 (as claimed): the value the cell that sums table.chi2_contribs prints
\* as the test statistic is the sum computed in that cell.
C19_PrintedIsContribsSum ==
    (ran = "5f9dd41d" /\ err = "none") => Printed_5f9dd41d = chi2

\* ------------------------------------ goodness of fit: idempotence

\* C20: normalising is idempotent.  Positive expected counts that already
\* total the observed counts are left unchanged by the normalisation, and
\* positive normalised counts are left unchanged by normalising them again,
\* so the statistic after normalising twice is the statistic the notebook
\* computed after normalising once.
C20_NormalisingIsIdempotent ==
    (HasColumns({"expected_shirts_normed"}) /\ AllPositive(df["expected_shirts"])) =>
        /\ SumSeq(df["expected_shirts"]) = SumSeq(df["shirts"]) =>
               df["expected_shirts_normed"] = df["expected_shirts"]
        /\ AllPositive(df["expected_shirts_normed"]) =>
               /\ Normed(df["shirts"], df["expected_shirts_normed"])
                      = df["expected_shirts_normed"]
               /\ GofStatisticRan =>
                      GofStatistic(df["shirts"], df["expected_shirts_normed"]) = chi_2

\* C20 witness: the statistic of a table whose expected counts had to be
\* rescaled, to positive counts
C20_Witness ==
    /\ GofStatisticRan
    /\ AllPositive(df["expected_shirts"]) /\ AllPositive(df["expected_shirts_normed"])
    /\ df["expected_shirts_normed"] # df["expected_shirts"]
    /\ ~IsZero(chi_2)


LessEq(x, y) == ~Less(y, x)

WelchDofRanOnTwoOrMore ==
    /\ ran = "b7be6892"
    /\ {"get_welchs_ttest_dof", "s_1_sqr", "s_2_sqr", "n_1", "n_2"} \subseteq names
    /\ n_1 >= 2 /\ n_2 >= 2

C21_BothZero ==
    WelchDofRanOnTwoOrMore /\ IsZero(s_1_sqr) /\ IsZero(s_2_sqr)

\* the dof function was called with one zero variance
C21_OneZero ==
    WelchDofRanOnTwoOrMore /\ IsZero(s_1_sqr) /\ ~IsZero(s_2_sqr) /\ err = "none"

\* the columns of df_totals that hold counts
CountColumns == DOMAIN df_totals \ {"Total"}

\* the rows of df_totals that hold counts
CountRows == 1..(NRows(df_totals) - 1)

RECURSIVE SumExpectedOverColumns(_, _)
\* the sum of get_expected over the set cols of columns of row r
SumExpectedOverColumns(cols, r) ==
    IF cols = {} THEN Fin(0, 1)
    ELSE LET c == CHOOSE x \in cols : TRUE
         IN  Add(get_expected(df_totals, r, c), SumExpectedOverColumns(cols \ {c}, r))

RECURSIVE SumExpectedOverRows(_, _)
\* the sum of get_expected over the first m rows of column c
SumExpectedOverRows(c, m) ==
    IF m = 0 THEN Fin(0, 1)
    ELSE Add(get_expected(df_totals, m, c), SumExpectedOverRows(c, m - 1))

RECURSIVE SumExpectedOverTable(_)
\* the sum of get_expected over all cells of the first m rows
SumExpectedOverTable(m) ==
    IF m = 0 THEN Fin(0, 1)
    ELSE Add(SumExpectedOverColumns(CountColumns, m), SumExpectedOverTable(m - 1))

\* get_expected is defined over a table whose row and column totals are all positive
ExpectedOverPositiveMarginals ==
    /\ {"df_totals", "get_expected"} \subseteq names
    /\ "Total" \in DOMAIN df_totals
    /\ \A r \in CountRows : Less(Fin(0, 1), df_totals["Total"][r])
    /\ \A c \in CountColumns : Less(Fin(0, 1), df_totals[c][NRows(df_totals)])

\* C22: for a contingency table whose row and column totals are all positive,
\* the expected counts of get_expected sum over each row to the row total, over
\* each column to the column total and over the table to the grand total.
C22_ExpectedPreservesMarginals ==
    ExpectedOverPositiveMarginals =>
        /\ \A r \in CountRows :
              SumExpectedOverColumns(CountColumns, r) = df_totals["Total"][r]
        /\ \A c \in CountColumns :
              SumExpectedOverRows(c, NRows(df_totals) - 1) = df_totals[c][NRows(df_totals)]
        /\ SumExpectedOverTable(NRows(df_totals) - 1)
              = df_totals["Total"][NRows(df_totals)]

\* the loop has called get_expected on a table with positive, unequal marginals
C22_Witness ==
    /\ ExpectedOverPositiveMarginals
    /\ ran = "d776fb77" /\ err = "none"
    /\ NRows(df_totals) >= 3
    /\ \E r1, r2 \in CountRows : df_totals["Total"][r1] # df_totals["Total"][r2]
    /\ e_i # o_i

\* observed[i] / expected[i] is the same for every i
Proportional(observed, expected) ==
    \A i, j \in 1..Len(observed) :
        Mul(observed[i], expected[j]) = Mul(observed[j], expected[i])

\* the goodness-of-fit statistic was computed against positive expected counts
GofRanOnPositiveExpected ==
    /\ GofStatisticRan
    /\ AllPositive(df["expected_shirts_normed"])

\* the cells the contingency loop visited
VisitedCells == {LoopCells(df)[i] : i \in 1..Len(LoopCells(df))}

\* the contingency loop ran to its end and every expected count was positive
LoopRanOnPositiveExpected ==
    /\ ran = "d776fb77" /\ err = "none" /\ "df" \in names
    /\ VisitedCells # {}
    /\ \A x \in VisitedCells : Less(Fin(0, 1), get_expected(df_totals, x.r, x.c))

\* C23: with positive expected counts the statistic sum((O - E)^2 / E) is
\* never negative and is zero exactly when every observed count equals its
\* expected count (normalised in the goodness-of-fit cell, derived from the
\* marginals in the contingency loop); in the goodness-of-fit cell that is
\* exactly when the observed counts are proportional to the supplied ones.
C23_StatisticNonNegative ==
    /\ GofRanOnPositiveExpected =>
          /\ ~Less(chi_2, Fin(0, 1))
          /\ IsZero(chi_2) <=> (df["shirts"] = df["expected_shirts_normed"])
          /\ IsZero(chi_2) <=> Proportional(df["shirts"], df["expected_shirts"])
    /\ LoopRanOnPositiveExpected =>
          /\ ~Less(chi_2, Fin(0, 1))
          /\ IsZero(chi_2) <=>
                \A x \in VisitedCells : df[x.c][x.r] = get_expected(df_totals, x.r, x.c)

\* a zero statistic from observed counts proportional, not equal, to the supplied ones
C23_Witness ==
    /\ GofRanOnPositiveExpected
    /\ IsZero(chi_2)
    /\ Len(df["shirts"]) >= 2
    /\ df["shirts"] # df["expected_shirts"]

\* a positive goodness-of-fit statistic
C23_GofPositive == GofRanOnPositiveExpected /\ Less(Fin(0, 1), chi_2)

\* a positive statistic from the contingency loop
C23_LoopPositive == LoopRanOnPositiveExpected /\ Less(Fin(0, 1), chi_2)

\* a zero statistic from the contingency loop
C23_LoopZero == LoopRanOnPositiveExpected /\ IsZero(chi_2)

\* the Welch t-score cell run on the two samples exchanged
SwappedWelchTScore ==
    LET xb1 == Mean(samples_2, n_2)
        xb2 == Mean(samples_1, n_1)
    IN  WelchTScore(xb1, xb2, Variance(samples_2, xb1, n_2),
                    Variance(samples_1, xb2, n_1), n_2, n_1)

\* the pooled standard deviation of the two samples exchanged
SwappedPooled ==
    LET xb1 == Mean(samples_2, n_2)
        xb2 == Mean(samples_1, n_1)
    IN  Sqrt(PooledVariance(Variance(samples_2, xb1, n_2), Variance(samples_1, xb2, n_1),
                            n_2, n_1, n_2 + n_1 - 2))

\* the pooled t-score cell run on the two samples exchanged
SwappedPooledTScore ==
    PooledTScore(Mean(samples_2, n_2), Mean(samples_1, n_1), SwappedPooled, n_2, n_1)

\* C24: exchanging the two samples of a two-sample T-test (Welch's or pooled)
\* negates the t-score and leaves the degrees of freedom and the two-tailed
\* p-value sf(|t|, dof) * 2 unchanged, for samples of at least 2 values whose
\* variances are not both zero.
C24_SwapNegatesTScore ==
    /\ (ran = "62738b19" /\ err = "none") =>
          SwappedWelchTScore = RootNeg(t_score)
    /\ (ran = "b7be6892" /\ err = "none") =>
          get_welchs_ttest_dof(s_2_sqr, s_1_sqr, n_2, n_1) = dof
    /\ (ran = "f20a2111" /\ err = "none") =>
          /\ SwappedPooledTScore = RootNeg(t_score)
          /\ SwappedPooled = s_pooled
          /\ Int2Num(n_2 + n_1 - 2) = dof
    /\ (ran \in {"14f75359", "3feaa1d1"} /\ err = "none") =>
          TwoTail(RootNeg(t_score), dof) = p_value_2tail
    /\ (ran = "14f75359" /\ err = "none"
          /\ p_value_2tail = WelchPValueOf(samples_1, samples_2)) =>
          WelchPValueOf(samples_2, samples_1) = p_value_2tail

\* Welch's p-value of two samples of different sizes, variances and means
C24_Witness ==
    /\ ran = "14f75359" /\ err = "none"
    /\ n_1 >= 2 /\ n_2 >= 2 /\ n_1 # n_2
    /\ s_1_sqr # s_2_sqr
    /\ ~RootIsZero(t_score)
    /\ p_value_2tail = WelchPValueOf(samples_1, samples_2)

\* a pooled t-score of two samples of different sizes and means
C24_PooledRan ==
    /\ ran = "f20a2111" /\ err = "none"
    /\ n_1 # n_2 /\ ~RootIsZero(t_score)
=============================================================================
